---- MODULE Spec2Model ----
(***************************************************************************)
(* A model of FXVolatilitySurface (frm/market_data/fx_volatility_surface.py)*)
(*                                                                         *)
(* Dates are whole days counted from curve_date (curve_date = 0), and a    *)
(* year-fraction is carried as that day count.  A volatility is carried by *)
(* its square, an exact rational or one of the IEEE specials (nan, +inf,   *)
(* -inf), so that the sign test under the square root and the division by  *)
(* t2 - t1 behave as numpy's do.  Collaborators that are not part of this  *)
(* file (strike solver, spline constructors, Heston calibration, zero      *)
(* curves) are uninterpreted: their result is the record of their inputs,  *)
(* or is drawn from a small set when the code branches on it (SSE).        *)
(***************************************************************************)
EXTENDS Integers, Sequences, FiniteSets, TLC

VARIABLES
    phase,                        \* "new" | "built" | "failed"
    error,                        \* the exception __post_init__ ended with
    curve_ccy,                    \* sequence of characters
    foreign_ccy,
    domestic_ccy,
    spot_date,
    fx_forward_curve,             \* expiry date -> fx_forward_rate
    fx_spot_rate,
    sigma_pillar,                 \* NoTable, or the pillar table
    K_pillar,
    Delta_sigma_daily,            \* NoTable, or date -> daily row
    smile_interpolation_method,
    K_sigma_daily_smile_func,     \* date -> fitted smile (the cache)
    collaborator_calls,           \* calls made with the pair code, in order
    forward_volatility_calls,     \* inputs and outcome of the forward_volatility
                                  \* calls of construction / the last simulation
    fit_calls,                    \* date -> number of fitting steps executed
    fit_rejects,                  \* date -> number of rejected calibrations
    n_fits,                       \* fitting steps executed so far
    ret                           \* outcome of the last query

vars == <<phase, error, curve_ccy, foreign_ccy, domestic_ccy, spot_date,
          fx_forward_curve, fx_spot_rate, sigma_pillar, K_pillar,
          Delta_sigma_daily, smile_interpolation_method,
          K_sigma_daily_smile_func, collaborator_calls,
          forward_volatility_calls, fit_calls, fit_rejects, n_fits, ret>>

surface_vars == <<phase, error, curve_ccy, foreign_ccy, domestic_ccy,
                  spot_date, fx_forward_curve, fx_spot_rate, sigma_pillar,
                  K_pillar, Delta_sigma_daily, smile_interpolation_method,
                  collaborator_calls, forward_volatility_calls>>

-----------------------------------------------------------------------------
curve_date == 0

(* Bounds *)

\* last day a pillar or a forward-curve knot may fall on
MaxDay == 3
\* longest dates / strikes / call-put array of a query
MaxLen == 2
\* last day a pillar of the two-pillar term structures may fall on
MaxTenor == 5
\* rejected calibrations over a surface's lifetime
MaxRejects == 1

\* Python's None for an optional value; a value that is set is Some(x)
None == <<>>
Some(x) == <<x>>
\* a table attribute that is None
NoTable == <<>>
HasTable(t) == DOMAIN t # {}
NoError == [type |-> "none", what |-> "none"]
EmptyMap == [x \in {} |-> 0]

-----------------------------------------------------------------------------
(* Floating-point values: exact rationals plus nan, +inf, -inf *)

RECURSIVE GCD(_, _)
GCD(a, b) == IF b = 0 THEN a ELSE GCD(b, a % b)

Abs(x) == IF x < 0 THEN -x ELSE x

NaN == [k |-> "nan", n |-> 0, d |-> 0]
PosInf == [k |-> "inf", n |-> 1, d |-> 0]
NegInf == [k |-> "inf", n |-> -1, d |-> 0]

\* the rational n/d, d # 0, in lowest terms with a positive denominator
Rat(n, d) ==
    LET g == GCD(Abs(n), Abs(d))
        s == IF d < 0 THEN -1 ELSE 1
    IN  [k |-> "num", n |-> s * (n \div g), d |-> s * (d \div g)]

FromInt(i) == [k |-> "num", n |-> i, d |-> 1]

IsNum(x) == x.k = "num"

\* x < 0 as numpy evaluates it: False for nan
IsNegative(x) == x.k # "nan" /\ x.n < 0

FAdd(x, y) ==
    IF IsNum(x) /\ IsNum(y) THEN Rat(x.n * y.d + y.n * x.d, x.d * y.d)
    ELSE IF x.k = "nan" \/ y.k = "nan" THEN NaN
    ELSE IF IsNum(x) THEN y
    ELSE IF IsNum(y) THEN x
    ELSE IF x = y THEN x ELSE NaN

FNeg(x) == IF IsNum(x) THEN Rat(-x.n, x.d) ELSE IF x.k = "nan" THEN NaN
           ELSE IF x = PosInf THEN NegInf ELSE PosInf

FSub(x, y) == FAdd(x, FNeg(y))

FMul(x, y) ==
    IF IsNum(x) /\ IsNum(y) THEN Rat(x.n * y.n, x.d * y.d)
    ELSE IF x.k = "nan" \/ y.k = "nan" THEN NaN
    ELSE IF x.n = 0 \/ y.n = 0 THEN NaN
    ELSE IF (x.n < 0) = (y.n < 0) THEN PosInf ELSE NegInf

\* x / y with numpy's division by zero: 0/0 = nan, a/0 = +-inf
FDiv(x, y) ==
    IF IsNum(x) /\ IsNum(y)
    THEN IF y.n # 0 THEN Rat(x.n * y.d, x.d * y.n)
         ELSE IF x.n = 0 THEN NaN
         ELSE IF x.n > 0 THEN PosInf ELSE NegInf
    ELSE IF x.k = "nan" \/ y.k = "nan" THEN NaN
    ELSE IF IsNum(x) THEN FromInt(0)
    ELSE IF IsNum(y) THEN (IF (x.n < 0) = (y.n < 0) THEN PosInf ELSE NegInf)
    ELSE NaN

\* x < y on rationals
FLess(x, y) == IsNum(x) /\ IsNum(y) /\ x.n * y.d < y.n * x.d

-----------------------------------------------------------------------------
(* Small helpers on sets, sequences and functions *)

SetMin(S) == CHOOSE x \in S : \A y \in S : x <= y
SetMax(S) == CHOOSE x \in S : \A y \in S : x >= y

Range(s) == {s[i] : i \in DOMAIN s}

SeqsUpTo(S, n) == UNION {[1..m -> S] : m \in 1..n}

-----------------------------------------------------------------------------
(* Currency-pair code: str.lower, str.strip and slicing, on character       *)
(* sequences                                                                *)

Lower(c) ==
    CASE c = "A" -> "a" [] c = "U" -> "u" [] c = "D" -> "d" [] c = "S" -> "s"
      [] OTHER -> c

StrLower(s) == [i \in DOMAIN s |-> Lower(s[i])]

RECURSIVE LStrip(_)
LStrip(s) == IF s # <<>> /\ Head(s) = " " THEN LStrip(Tail(s)) ELSE s

RECURSIVE RStrip(_)
RStrip(s) == IF s # <<>> /\ s[Len(s)] = " "
             THEN RStrip(SubSeq(s, 1, Len(s) - 1)) ELSE s

StrStrip(s) == RStrip(LStrip(s))

\* s[:3] and s[3:]
First3(s) == SubSeq(s, 1, IF Len(s) < 3 THEN Len(s) ELSE 3)
From3(s) == SubSeq(s, 4, Len(s))

-----------------------------------------------------------------------------
(* Collaborators *)

\* ZeroCurve.zero_rate(dates, 'continuously'), uninterpreted
ZeroRate(curve, d) == [zero_curve |-> curve, date |-> d]

\* interp_fx_forward_curve(curve, dates, flat_extrapolation=True): the knot's
\* own rate at a knot, the boundary knot's rate outside the curve, and between
\* two knots a value determined by the two knots and the date
KnotRate(curve, k) ==
    [at |-> k, below |-> k, above |-> k,
     below_rate |-> curve[k], above_rate |-> curve[k]]

InterpFXForwardCurve(curve, d) ==
    LET lo == SetMin(DOMAIN curve)
        hi == SetMax(DOMAIN curve)
    IN  IF d \in DOMAIN curve THEN KnotRate(curve, d)
        ELSE IF d < lo THEN KnotRate(curve, lo)
        ELSE IF d > hi THEN KnotRate(curve, hi)
        ELSE LET b == SetMax({k \in DOMAIN curve : k < d})
                 a == SetMin({k \in DOMAIN curve : k > d})
             IN  [at |-> d, below |-> b, above |-> a,
                  below_rate |-> curve[b], above_rate |-> curve[a]]

\* DayCounter.year_fraction(curve_date, date), carried as the day count
YearFraction(d) == d - curve_date

\* gk_solve_strike for one element of the sigma / Delta arrays, uninterpreted
gk_solve_strike(S, tau, r_f, r_d, sigma, Delta, Delta_convention, F) ==
    [S |-> S, tau |-> tau, r_f |-> r_f, r_d |-> r_d, sigma |-> sigma,
     Delta |-> Delta, Delta_convention |-> Delta_convention, F |-> F]

-----------------------------------------------------------------------------
(* Quote labels.  "25Dput" stands for the column 'σ_25Δput' (and its strike *)
(* column 'k_25Δput'), and so on.                                          *)

Buckets == {"10Dput", "25Dput", "atmDneutral", "25Dcall", "10Dcall", "atmf"}

\* the column-name tests v[-4:] == 'call', v[-3:] == 'put'
IsCall(b) == b \in {"25Dcall", "10Dcall"}
IsPut(b) == b \in {"25Dput", "10Dput"}

\* float(v.split('_')[1].split('Δ')[0]), the leading number of a wing label
LabelNumber(b) == IF b \in {"10Dput", "10Dcall"} THEN 10 ELSE 25

VALID_DELTA_CONVENTIONS ==
    {"regular_spot_delta", "regular_forward_delta",
     "premium_adjusted_spot_delta", "premium_adjusted_forward_delta"}

VALID_FX_SMILE_INTERPOLATION_METHOD ==
    {"univariate_spline", "cubic_spline", "heston_analytical_1993",
     "heston_carr_madan_gauss_kronrod_quadrature",
     "heston_carr_madan_fft_w_simpsons", "vanna_volga", "sabr", "svi_sabr"}

-----------------------------------------------------------------------------
(* forward_volatility and flat_forward_interp, elementwise over numpy       *)
(* arrays: an array is a function on an index set, all arguments share it   *)

Ok(v) == [status |-> "ok", value |-> v]
Raise(e) == [status |-> "raise", value |-> e]

NegativeVarianceError ==
    [type |-> "ValueError", what |-> "Negative value encountered under square root."]

\* np.sqrt, on the carried squares: nan for a negative argument
SqrtOfSquare(x) == IF IsNegative(x) THEN NaN ELSE x

\* (σ_t2**2 * t2 - σ_t1**2 * t1) / tau for one element
ForwardVariance(t1, var_t1, t2, var_t2) ==
    FDiv(FSub(FMul(var_t2, FromInt(t2)), FMul(var_t1, FromInt(t1))),
         FromInt(t2 - t1))

\* the branch taken on tau: the t2 < t1 test is an elif of the t2 == t1 test
TauCheckRaises(t1, t2) ==
    /\ ~ \E i \in DOMAIN t1 : t2[i] - t1[i] = 0
    /\ \E i \in DOMAIN t1 : t2[i] - t1[i] < 0

\* np.any(result < 0)
AnyNegative(result) == \E i \in DOMAIN result : IsNegative(result[i])

forward_volatility(t1, var_t1, t2, var_t2) ==
    LET result == [i \in DOMAIN t1 |->
                     ForwardVariance(t1[i], var_t1[i], t2[i], var_t2[i])]
    IN  IF TauCheckRaises(t1, t2)
        THEN Raise([type |-> "NameError", what |-> "ValueErwarnings"])
        ELSE IF AnyNegative(result) THEN Raise(NegativeVarianceError)
        ELSE Ok([i \in DOMAIN t1 |-> SqrtOfSquare(result[i])])

\* the variance up to t1 is not weighted by t1
flat_forward_interp_Unweighted(t1, var_t1, t2, var_t2, t) ==
    LET fwd == forward_volatility(t1, var_t1, t2, var_t2)
    IN  IF fwd.status = "raise" THEN fwd
        ELSE Ok([i \in DOMAIN t1 |->
                   SqrtOfSquare(
                     FDiv(FAdd(var_t1[i],
                               FMul(fwd.value[i], FromInt(t[i] - t1[i]))),
                          FromInt(t[i])))])

flat_forward_interp(t1, var_t1, t2, var_t2, t) ==
    LET fwd == forward_volatility(t1, var_t1, t2, var_t2)
    IN  IF fwd.status = "raise" THEN fwd
        ELSE Ok([i \in DOMAIN t1 |->
                   SqrtOfSquare(
                     FDiv(FAdd(FMul(var_t1[i], FromInt(t1[i])),
                               FMul(fwd.value[i], FromInt(t[i] - t1[i]))),
                          FromInt(t[i])))])

-----------------------------------------------------------------------------
(* __post_init__ *)

InvalidCurrencyPair == [type |-> "AssertionError", what |-> "len(curve_ccy) == 6"]
MissingSpotQuote ==
    [type |-> "ValueError", what |-> "curve date fx rate is missing in fx_forward_curve"]
KeyError(what) == [type |-> "KeyError", what |-> what]

\* self.curve_ccy.lower().strip()
NormaliseCcy(raw) == StrStrip(StrLower(raw))

\* assert len(self.curve_ccy) == 6
CcyLengthOk(ccy) == Len(ccy) = 6

\* the check left out: every forward curve is taken to hold the curve date
SpotQuoteMissing_Skipped(curve) == FALSE

\* self.curve_date not in self.fx_forward_curve.index
SpotQuoteMissing(curve) == curve_date \notin DOMAIN curve

\* self.fx_forward_curve.loc[self.curve_date, 'fx_forward_rate']
SpotRateOf(curve) == curve[curve_date]

\* __interp_daily_FXF_and_IR_rates: zero rates and forward rate per row
interp_daily_FXF_and_IR_rates(curve, df) ==
    [d \in DOMAIN df |->
        [foreign_ccy_continuously_compounded_zero_rate |-> ZeroRate("foreign", d),
         domestic_ccy_continuously_compounded_zero_rate |-> ZeroRate("domestic", d),
         fx_forward_rate |-> InterpFXForwardCurve(curve, d)] @@ df[d]]

\* the quote labels of a table (its σ columns)
QuoteLabels(df) == DOMAIN df[SetMin(DOMAIN df)].sigma

\* cp and Δ (in hundredths) of a strike column when the pillar strikes are
\* derived; cp is None, written 0, for a label that is neither call nor put
PillarCp(b) == IF IsCall(b) THEN 1 ELSE IF IsPut(b) THEN -1 ELSE 0
PillarDelta(b) == IF b = "atmDneutral" THEN 50 ELSE PillarCp(b) * LabelNumber(b)

\* K_pillar: the forward rate column, or the solver's strike per bucket
StrikePillar(S, pillar) ==
    IF "atmf" \in QuoteLabels(pillar)
    THEN [p \in DOMAIN pillar |-> pillar[p].fx_forward_rate]
    ELSE [p \in DOMAIN pillar |->
            LET row == pillar[p]
            IN  [b \in DOMAIN row.sigma |->
                   gk_solve_strike(S, row.tenor_years,
                       row.foreign_ccy_continuously_compounded_zero_rate,
                       row.domestic_ccy_continuously_compounded_zero_rate,
                       row.sigma[b], PillarDelta(b), row.Delta_convention,
                       row.fx_forward_rate)]]

\* cols = ['σ_25Δput','σ_atmΔneutral','σ_25Δcall']
DailyCols == {"25Dput", "atmDneutral", "25Dcall"}

\* pd.date_range(min(index), max(index), freq='d')
DateRange(pillar) == SetMin(DOMAIN pillar)..SetMax(DOMAIN pillar)

\* merge_asof(direction='backward' | 'forward'): the bracketing pillars
LowerPillar(pillar, d) == SetMax({p \in DOMAIN pillar : p <= d})
UpperPillar(pillar, d) == SetMin({p \in DOMAIN pillar : p >= d})

\* no row is interpolated: every row copies its lower pillar
InterpMask_Never(t1, t2) == FALSE

\* mask = t1 != t2
InterpMask(t1, t2) == t1 # t2

\* t1, t2, t, σ_t1, σ_t2: one element per grid date and column of cols
DailyBrackets(pillar) ==
    LET idx == DateRange(pillar) \X DailyCols
    IN  [t1 |-> [i \in idx |-> pillar[LowerPillar(pillar, i[1])].tenor_years],
         t2 |-> [i \in idx |-> pillar[UpperPillar(pillar, i[1])].tenor_years],
         t |-> [i \in idx |-> YearFraction(i[1])],
         s1 |-> [i \in idx |-> pillar[LowerPillar(pillar, i[1])].sigma[i[2]]],
         s2 |-> [i \in idx |-> pillar[UpperPillar(pillar, i[1])].sigma[i[2]]]]

\* one evaluation of forward_volatility: its t1 and t2 and how it ended
FormulaCall(t1, t2, status) == [t1 |-> t1, t2 |-> t2, status |-> status]

\* the forward_volatility evaluation inside flat_forward_interp, which
\* np.where has evaluated over every row of the grid before it selects
DailyFormulaCalls(pillar) ==
    IF ~ (DailyCols \subseteq QuoteLabels(pillar)) THEN <<>>
    ELSE LET b == DailyBrackets(pillar)
         IN  <<FormulaCall(b.t1, b.t2,
                           forward_volatility(b.t1, b.s1, b.t2, b.s2).status)>>

\* the daily volatility grid, before rates are attached
DailySmile(pillar) ==
    LET dates == DateRange(pillar)
    IN  IF ~ (DailyCols \subseteq QuoteLabels(pillar))
        THEN Raise(KeyError("daily smile column not quoted on the pillars"))
        ELSE
        LET t1 == DailyBrackets(pillar).t1
            t2 == DailyBrackets(pillar).t2
            t == DailyBrackets(pillar).t
            s1 == DailyBrackets(pillar).s1
            s2 == DailyBrackets(pillar).s2
            interp == flat_forward_interp(t1, s1, t2, s2, t)
        IN  IF interp.status = "raise" THEN interp
            ELSE Ok([d \in dates |->
                       [tenor_years |-> YearFraction(d),
                        sigma |-> [c \in DailyCols |->
                                     IF InterpMask(t1[<<d, c>>], t2[<<d, c>>])
                                     THEN interp.value[<<d, c>>]
                                     ELSE s1[<<d, c>>]],
                        Delta_convention |-> "regular_forward_delta"]])

PostInit ==
    /\ phase = "new"
    /\ LET raw == curve_ccy
           calendar_call == <<"get_calendar", First3(raw), From3(raw)>>
           tenor_call == <<"calc_tenor_date", raw>>
           calls == IF spot_date = None THEN <<calendar_call, tenor_call>>
                    ELSE <<calendar_call>>
           spot == IF spot_date = None THEN Some([spot_of |-> raw]) ELSE spot_date
           ccy == NormaliseCcy(raw)
           ccy_ok == CcyLengthOk(ccy)
           spot_ok == /\ ccy_ok
                      /\ ~ SpotQuoteMissing(fx_forward_curve)
                      /\ curve_date \in DOMAIN fx_forward_curve
           S == SpotRateOf(fx_forward_curve)
           has_pillars == HasTable(sigma_pillar)
           pillar == interp_daily_FXF_and_IR_rates(fx_forward_curve, sigma_pillar)
           daily == DailySmile(pillar)
           e == IF ~ ccy_ok THEN InvalidCurrencyPair
                ELSE IF SpotQuoteMissing(fx_forward_curve) THEN MissingSpotQuote
                ELSE IF ~ spot_ok THEN KeyError("fx_forward_curve.loc")
                ELSE IF has_pillars /\ daily.status = "raise" THEN daily.value
                ELSE NoError
       IN  /\ collaborator_calls' = calls
           /\ forward_volatility_calls' =
                 IF spot_ok /\ has_pillars THEN DailyFormulaCalls(pillar) ELSE <<>>
           /\ spot_date' = spot
           /\ curve_ccy' = ccy
           /\ foreign_ccy' = IF ccy_ok THEN First3(ccy) ELSE None
           /\ domestic_ccy' = IF ccy_ok THEN From3(ccy) ELSE None
           /\ fx_spot_rate' = IF spot_ok THEN Some(S) ELSE None
           /\ sigma_pillar' = IF spot_ok /\ has_pillars THEN pillar ELSE sigma_pillar
           /\ K_pillar' = IF spot_ok /\ has_pillars THEN StrikePillar(S, pillar)
                          ELSE NoTable
           /\ Delta_sigma_daily' =
                 IF spot_ok /\ has_pillars /\ daily.status = "ok"
                 THEN interp_daily_FXF_and_IR_rates(fx_forward_curve, daily.value)
                 ELSE NoTable
           /\ error' = e
           /\ phase' = IF e.type = "none" THEN "built" ELSE "failed"
    /\ K_sigma_daily_smile_func' = EmptyMap
    /\ UNCHANGED <<fx_forward_curve, smile_interpolation_method,
                   fit_calls, fit_rejects, n_fits, ret>>

-----------------------------------------------------------------------------
(* Construction inputs *)

\* a quoted volatility v (in percent), carried by its square
Vol(v) == FromInt(v * v)

\* the volatility quotes of one pillar: at-the-money, 25-delta and 10-delta
Smiles ==
    { [atm |-> 10, w25 |-> 10, w10 |-> 10],
      [atm |-> 20, w25 |-> 20, w10 |-> 20],
      [atm |-> 10, w25 |-> 20, w10 |-> 20],
      [atm |-> 10, w25 |-> 10, w10 |-> 20] }

QuoteOf(smile, b) ==
    Vol(IF b \in {"atmDneutral", "atmf"} THEN smile.atm
        ELSE IF b \in {"25Dput", "25Dcall"} THEN smile.w25 ELSE smile.w10)

\* the sets of quote labels a pillar table may carry
LabelSets ==
    { {"25Dput", "atmDneutral", "25Dcall"},
      {"10Dput", "25Dput", "atmDneutral", "25Dcall", "10Dcall"},
      {"25Dput", "atmf", "25Dcall"} }

\* σ_pillar after input clean-up, indexed by tenor_date
PillarTables(days, labelSets, conventions) ==
    { [p \in P |-> [tenor_years |-> YearFraction(p),
                    Delta_convention |-> c,
                    sigma |-> [b \in L |-> QuoteOf(sm[p], b)]]] :
        <<P, L, c, sm>> \in
          { x \in (SUBSET days \ {{}}) \X labelSets \X conventions
                    \X [days -> Smiles] :
              \A d \in days \ x[1] : x[4][d] = CHOOSE q \in Smiles : TRUE } }

\* fx_forward_curve indexed by expiry date: every day, the two ends, without
\* the curve date, the last day only
ForwardCurves ==
    { [d \in S |-> 660 + d] :
        S \in { 0..MaxDay, {0, MaxDay}, 1..MaxDay, {MaxDay} } }

CcyInputs ==
    { <<"a", "u", "d", "u", "s", "d">>,
      <<" ", "A", "U", "D", "u", "s", "d", " ">>,
      <<"u", "s", "d">>,
      <<"a", "u", "d", "u", "s", "d", "x">> }

\* query dates: the curve date (before the first pillar), the first pillar
\* date and the day after it
QueryDates == {curve_date, curve_date + 1, curve_date + 2}

InitCommon ==
    /\ phase = "new"
    /\ error = NoError
    /\ foreign_ccy = None
    /\ domestic_ccy = None
    /\ fx_spot_rate = None
    /\ K_pillar = NoTable
    /\ Delta_sigma_daily = NoTable
    /\ K_sigma_daily_smile_func = EmptyMap
    /\ collaborator_calls = <<>>
    /\ forward_volatility_calls = <<>>
    /\ fit_calls = [d \in QueryDates |-> 0]
    /\ fit_rejects = [d \in QueryDates |-> 0]
    /\ n_fits = 0
    /\ ret = [op |-> "none"]

-----------------------------------------------------------------------------
(* interp_σ_surface *)

\* the acceptance threshold 0.001 of the Heston fit, in units of 0.0001
SSE_THRESHOLD == 10

\* query errors carry the date they name, if any
QueryError(type, what, date) ==
    [type |-> type, what |-> what, date |-> date, SSE |-> None]
NoQueryError == QueryError("none", "none", None)
ShapeMismatch(what) == QueryError("AssertionError", what, None)
\* ValueError('SSE is a large value, ', round(SSE,4), ' heston fit at ', date, ...)
PoorCalibrationFit(date, SSE) ==
    [type |-> "ValueError",
     what |-> "SSE is a large value, heston fit is likely poor",
     date |-> Some(date), SSE |-> Some(SSE)]

IsSpline(method) == method \in {"univariate_spline", "cubic_spline"}
\* method[:6] == 'heston'
IsHeston(method) ==
    method \in {"heston_analytical_1993",
                "heston_carr_madan_gauss_kronrod_quadrature",
                "heston_carr_madan_fft_w_simpsons"}

\* only the strikes are checked against the dates
ShapeCheck_StrikesOnly(dates, K, cp) ==
    IF Len(dates) # Len(K) THEN ShapeMismatch("dates.shape == K.shape")
    ELSE NoQueryError

\* assert dates.shape == K.shape; assert dates.shape == cp.shape
ShapeCheck(dates, K, cp) ==
    IF Len(dates) # Len(K) THEN ShapeMismatch("dates.shape == K.shape")
    ELSE IF Len(dates) # Len(cp) THEN ShapeMismatch("dates.shape == cp.shape")
    ELSE NoQueryError

\* every date of a query is fitted, cached or not
NeedsFit_Always(cache, date) == TRUE

\* if date not in self.K_σ_daily_smile_func.keys()
NeedsFit(cache, date) == date \notin DOMAIN cache

\* if SSE < 0.001
SSEAccepted(SSE) == SSE < SSE_THRESHOLD

\* the fit is computed and not stored
CacheFit_Dropped(cache, date, fit) == cache

\* self.K_σ_daily_smile_func[date] = ...
CacheFit(cache, date, fit) == (date :> fit) @@ cache

\* the put deltas are not negated
SmileDelta_Unsigned(b) == IF b = "atmDneutral" THEN 50 ELSE LabelNumber(b)

\* cp and Δ (in hundredths) of a strike column when a date's smile is fitted
SmileCp(b) == IF IsCall(b) THEN 1 ELSE IF IsPut(b) THEN -1 ELSE 1
SmileDelta(b) == IF b = "atmDneutral" THEN 50 ELSE SmileCp(b) * LabelNumber(b)

\* the converter is called with a fixed convention, whatever the row records
SmileStrikes_DefaultConvention(S, row) ==
    [b \in DOMAIN row.sigma |->
        gk_solve_strike(S, row.tenor_years,
            row.foreign_ccy_continuously_compounded_zero_rate,
            row.domestic_ccy_continuously_compounded_zero_rate,
            row.sigma[b], SmileDelta(b), "regular_spot_delta",
            row.fx_forward_rate)]

\* gk_solve_strike over the date's quote labels
SmileStrikes(S, row) ==
    [b \in DOMAIN row.sigma |->
        gk_solve_strike(S, row.tenor_years,
            row.foreign_ccy_continuously_compounded_zero_rate,
            row.domestic_ccy_continuously_compounded_zero_rate,
            row.sigma[b], SmileDelta(b), row.Delta_convention,
            row.fx_forward_rate)]

\* InterpolatedUnivariateSpline(x=K, y=σ) and CubicSpline(x=K, y=σ) are built
\* with no ext / extrapolate argument: the library default, which continues
\* the boundary polynomial beyond the fitted strikes
SplineDefaultExtrapolation == "polynomial"

\* The fitting step of one date.  serial tells one fitted object from the
\* next; SSE is what heston_fit_vanilla_fx_smile reports.
FitSmile(method, S, row, date, SSE, serial) ==
    IF method = "univariate_spline"
    THEN [outcome |-> "cached",
          fit |-> [kind |-> "InterpolatedUnivariateSpline", date |-> date,
                   x |-> SmileStrikes(S, row), y |-> row.sigma,
                   extrapolate |-> SplineDefaultExtrapolation,
                   SSE |-> 0, serial |-> serial]]
    ELSE IF method = "cubic_spline"
    THEN [outcome |-> "cached",
          fit |-> [kind |-> "CubicSpline", date |-> date,
                   x |-> SmileStrikes(S, row), y |-> row.sigma,
                   extrapolate |-> SplineDefaultExtrapolation,
                   SSE |-> 0, serial |-> serial]]
    ELSE IF IsHeston(method)
    THEN IF SSEAccepted(SSE)
         THEN [outcome |-> "cached",
               fit |-> [kind |-> "heston_parameters", date |-> date,
                        x |-> <<>>, y |-> row.sigma,
                        extrapolate |-> "none",
                        SSE |-> SSE, serial |-> serial]]
         ELSE [outcome |-> "rejected", fit |-> [SSE |-> SSE]]
    ELSE [outcome |-> "no_strategy", fit |-> <<>>]

\* a rejected calibration empties the cache
RECURSIVE FitLoop_ForgetsOnReject(_, _, _, _, _, _, _)
FitLoop_ForgetsOnReject(order, cache, serial, method, S, daily, sse) ==
    IF order = <<>> THEN [cache |-> cache, error |-> NoQueryError, ran |-> <<>>]
    ELSE
    LET date == Head(order)
    IN  IF ~ NeedsFit(cache, date)
        THEN FitLoop_ForgetsOnReject(Tail(order), cache, serial, method, S, daily, sse)
        ELSE
        LET step == FitSmile(method, S, daily[date], date, sse[date], serial + 1)
        IN  IF step.outcome = "no_strategy"
            THEN FitLoop_ForgetsOnReject(Tail(order), cache, serial, method, S, daily, sse)
            ELSE IF step.outcome = "rejected"
            THEN [cache |-> EmptyMap, error |-> PoorCalibrationFit(date, step.fit.SSE),
                  ran |-> <<date>>]
            ELSE LET rest == FitLoop_ForgetsOnReject(Tail(order),
                                     CacheFit(cache, date, step.fit),
                                     serial + 1, method, S, daily, sse)
                 IN  [rest EXCEPT !.ran = <<date>> \o @]

\* for date, row in df_unique_dates.iterrows(): ...
\* order is the iteration order of set(dates), sse the calibration results
RECURSIVE FitLoop(_, _, _, _, _, _, _)
FitLoop(order, cache, serial, method, S, daily, sse) ==
    IF order = <<>> THEN [cache |-> cache, error |-> NoQueryError, ran |-> <<>>]
    ELSE
    LET date == Head(order)
    IN  IF ~ NeedsFit(cache, date)
        THEN FitLoop(Tail(order), cache, serial, method, S, daily, sse)
        ELSE
        LET step == FitSmile(method, S, daily[date], date, sse[date], serial + 1)
        IN  IF step.outcome = "no_strategy"
            THEN FitLoop(Tail(order), cache, serial, method, S, daily, sse)
            ELSE IF step.outcome = "rejected"
            THEN [cache |-> cache, error |-> PoorCalibrationFit(date, step.fit.SSE),
                  ran |-> <<date>>]
            ELSE LET rest == FitLoop(Tail(order), CacheFit(cache, date, step.fit),
                                     serial + 1, method, S, daily, sse)
                 IN  [rest EXCEPT !.ran = <<date>> \o @]

\* A query strike is carried by where it lies against the strikes its date's
\* smile was fitted on, which is all the spline's evaluation depends on here.
StrikeKinds == <<"within", "above", "below">>
WithinFittedStrikes(K_target) == K_target = "within"

\* the volatility read off a date's fit at one strike: the spline's value, or
\* the solver's inversion of the Heston price
ImpliedVol(method, fit, S, row, K_target, call_put) ==
    IF IsSpline(method)
    THEN [smile |-> fit, strike |-> K_target, call_put |-> 0,
          mode |-> IF WithinFittedStrikes(K_target) THEN "interpolated"
                   ELSE fit.extrapolate]
    ELSE [smile |-> fit, strike |-> K_target, call_put |-> call_put,
          mode |-> "priced"]

\* a date that repeats the date before it is not evaluated again
RECURSIVE EvalLoop_SkipsRepeats(_, _, _, _, _, _, _, _)
EvalLoop_SkipsRepeats(i, dates, K, cp, cache, method, S, daily) ==
    IF i > Len(dates) THEN Ok(<<>>)
    ELSE IF ~ (IsSpline(method) \/ IsHeston(method))
    THEN EvalLoop_SkipsRepeats(i + 1, dates, K, cp, cache, method, S, daily)
    ELSE IF i > 1 /\ dates[i] = dates[i - 1]
    THEN EvalLoop_SkipsRepeats(i + 1, dates, K, cp, cache, method, S, daily)
    ELSE IF dates[i] \notin DOMAIN cache
    THEN Raise(QueryError("KeyError", "K_sigma_daily_smile_func", Some(dates[i])))
    ELSE LET rest == EvalLoop_SkipsRepeats(i + 1, dates, K, cp, cache, method, S, daily)
         IN  IF rest.status = "raise" THEN rest
             ELSE Ok(<<ImpliedVol(method, cache[dates[i]], S, daily[dates[i]],
                                  K[i], cp[i])>> \o rest.value)

\* for date, row in df.iterrows(): ... result.append(...)
RECURSIVE EvalLoop(_, _, _, _, _, _, _, _)
EvalLoop(i, dates, K, cp, cache, method, S, daily) ==
    IF i > Len(dates) THEN Ok(<<>>)
    ELSE IF ~ (IsSpline(method) \/ IsHeston(method))
    THEN EvalLoop(i + 1, dates, K, cp, cache, method, S, daily)
    ELSE IF dates[i] \notin DOMAIN cache
    THEN Raise(QueryError("KeyError", "K_sigma_daily_smile_func", Some(dates[i])))
    ELSE LET rest == EvalLoop(i + 1, dates, K, cp, cache, method, S, daily)
         IN  IF rest.status = "raise" THEN rest
             ELSE Ok(<<ImpliedVol(method, cache[dates[i]], S, daily[dates[i]],
                                  K[i], cp[i])>> \o rest.value)

\* interp_σ_surface(dates, K, cp) on a surface with the given cache:
\* [status, value, cache, ran]
interp_sigma_surface(cache, serial, method, S, daily, dates, K, cp, order, sse) ==
    LET shape == ShapeCheck(dates, K, cp)
        fail(e) == [status |-> "raise", value |-> e, cache |-> cache, ran |-> <<>>]
    IN  IF shape.type # "none" THEN fail(shape)
        ELSE IF ~ HasTable(daily)
        THEN fail(QueryError("AttributeError", "Delta_sigma_daily is None", None))
        ELSE IF \E i \in DOMAIN dates : dates[i] \notin DOMAIN daily
        THEN fail(QueryError("KeyError", "Delta_sigma_daily.loc", None))
        ELSE IF Len(K) # Len(dates) \/ Len(cp) # Len(dates)
        THEN fail(QueryError("ValueError",
                    "Length of values does not match length of index", None))
        ELSE
        LET fitted == FitLoop(order, cache, serial, method, S, daily, sse)
            values == EvalLoop(1, dates, K, cp, fitted.cache, method, S, daily)
        IN  IF fitted.error.type # "none"
            THEN [status |-> "raise", value |-> fitted.error,
                  cache |-> fitted.cache, ran |-> fitted.ran]
            ELSE [status |-> values.status, value |-> values.value,
                  cache |-> fitted.cache, ran |-> fitted.ran]

-----------------------------------------------------------------------------
(* price_fx_vanilla_european *)

\* expiry_datetimeindex[mask]
RECURSIVE Masked(_, _)
Masked(dates, mask) ==
    IF dates = <<>> THEN <<>>
    ELSE (IF Head(mask) THEN <<Head(dates)>> ELSE <<>>)
         \o Masked(Tail(dates), Tail(mask))

\* mask: index >= σ_pillar.index.min() and index <= σ_pillar.index.max()
PillarRangeMask(pillar, dates) ==
    [i \in DOMAIN dates |->
        dates[i] >= SetMin(DOMAIN pillar) /\ dates[i] <= SetMax(DOMAIN pillar)]

\* the arrays handed to interp_σ_surface for the in-range dates
ArgsForInRange(dates, K, cp, mask) ==
    [dates |-> Masked(dates, mask), K |-> K, cp |-> cp]

\* σ = np.full(shape, nan); σ[mask] = values
AssignMasked(mask, values) ==
    LET count == Cardinality({i \in DOMAIN mask : mask[i]})
        rank(i) == Cardinality({j \in 1..i : mask[j]})
    IN  IF Len(values) = count
        THEN Ok([i \in DOMAIN mask |-> IF mask[i] THEN values[rank(i)] ELSE NaN])
        ELSE IF Len(values) = 1
        THEN Ok([i \in DOMAIN mask |-> IF mask[i] THEN values[1] ELSE NaN])
        ELSE Raise(QueryError("ValueError",
                 "NumPy boolean array indexing assignment cannot assign", None))

\* price_fx_vanilla_european up to the volatilities handed to gk_price:
\* [status, value, cache, ran]
price_fx_vanilla_european(cache, serial, method, S, pillar, daily, dates, K, cp, order, sse) ==
    LET shape == ShapeCheck(dates, K, cp)
        fail(e) == [status |-> "raise", value |-> e, cache |-> cache, ran |-> <<>>]
    IN  IF shape.type # "none" THEN fail(shape)
        ELSE IF ~ HasTable(pillar)
        THEN fail(QueryError("AttributeError", "sigma_pillar is None", None))
        ELSE
        LET mask == PillarRangeMask(pillar, dates)
            args == ArgsForInRange(dates, K, cp, mask)
            vols == interp_sigma_surface(cache, serial, method, S, daily,
                                         args.dates, args.K, args.cp, order, sse)
            sigma == AssignMasked(mask, vols.value)
        IN  IF ~ \E i \in DOMAIN mask : mask[i]
            THEN [status |-> "ok", value |-> [i \in DOMAIN dates |-> NaN],
                  cache |-> cache, ran |-> <<>>]
            ELSE IF vols.status = "raise" THEN vols
            ELSE [status |-> sigma.status, value |-> sigma.value,
                  cache |-> vols.cache, ran |-> vols.ran]

-----------------------------------------------------------------------------
(* simulate_fx_rate_path, method 'geometric_brownian_motion': the term       *)
(* structure of drift and volatility handed to simulate_gbm_path             *)

\* the spot rate as an element of an array of forward rates: the number the
\* forward curve holds at the curve date
SpotAsRate(S) ==
    [at |-> curve_date, below |-> curve_date, above |-> curve_date,
     below_rate |-> S, above_rate |-> S]

\* date_grid, or the pillar dates in index order when date_grid is None
SimDateGrid(pillar, date_grid) ==
    IF date_grid # None THEN date_grid[1]
    ELSE LET RECURSIVE Sorted(_)
             Sorted(D) == IF D = {} THEN <<>>
                          ELSE <<SetMin(D)>> \o Sorted(D \ {SetMin(D)})
         IN  Sorted(DOMAIN pillar)

\* tau = np.insert(year_fraction(curve_date, date_grid), 0, 0)
SimTau(grid) == <<0>> \o [i \in DOMAIN grid |-> YearFraction(grid[i])]

\* fx_forward_rates_t2, and fx_forward_rates_t1: the spot rate, then t2's
\* rates shifted by one period
SimForwardT2(curve, grid) == [i \in DOMAIN grid |-> InterpFXForwardCurve(curve, grid[i])]
SimForwardT1(S, f_t2) ==
    [i \in DOMAIN f_t2 |-> IF i = 1 THEN SpotAsRate(S) ELSE f_t2[i - 1]]

\* np.log(fx_forward_rates_t2 / fx_forward_rates_t1) / dt, uninterpreted
PeriodDrift(f_t2, f_t1, dt) == [log_ratio |-> <<f_t2, f_t1>>, per |-> dt]

\* σ_atm: nan outside the pillar range, the daily grid's σ_atmΔneutral inside
SimAtm(pillar, daily, grid) ==
    [i \in DOMAIN grid |->
        IF PillarRangeMask(pillar, grid)[i]
        THEN daily[grid[i]].sigma["atmDneutral"] ELSE NaN]

\* every period starts from its own date's volatility
SimAtmT1_Unshifted(sigma_atm) == sigma_atm

\* σ_atm_t1 = np.insert(σ_atm[:-1], 0, σ_atm[0])
SimAtmT1(sigma_atm) ==
    [i \in DOMAIN sigma_atm |-> IF i = 1 THEN sigma_atm[1] ELSE sigma_atm[i - 1]]

\* [status, value, call]: the periods handed to simulate_gbm_path, or the
\* error raised, and the forward_volatility call made
gbm_market_data_inputs(S, curve, pillar, daily, date_grid) ==
    IF ~ HasTable(pillar) \/ ~ HasTable(daily)
    THEN [status |-> "raise",
          value |-> QueryError("AttributeError", "sigma_pillar is None", None),
          call |-> <<>>]
    ELSE
    LET grid == SimDateGrid(pillar, date_grid)
        tau == SimTau(grid)
        t1 == [i \in DOMAIN grid |-> tau[i]]
        t2 == [i \in DOMAIN grid |-> tau[i + 1]]
        dt == [i \in DOMAIN grid |-> t2[i] - t1[i]]
        f_t2 == SimForwardT2(curve, grid)
        f_t1 == SimForwardT1(S, f_t2)
        sigma_atm == SimAtm(pillar, daily, grid)
        fwd == forward_volatility(t1, SimAtmT1(sigma_atm), t2, sigma_atm)
        call == <<FormulaCall(t1, t2, fwd.status)>>
    IN  IF fwd.status = "raise"
        THEN [status |-> "raise",
              value |-> QueryError(fwd.value.type, fwd.value.what, None),
              call |-> call]
        ELSE [status |-> "ok",
              value |-> [i \in DOMAIN grid |->
                           [from_rate |-> f_t1[i], to_rate |-> f_t2[i],
                            period_length |-> dt[i],
                            period_drift |-> PeriodDrift(f_t2[i], f_t1[i], dt[i]),
                            period_forward_volatility |->
                               IF i = 1 THEN sigma_atm[1] ELSE fwd.value[i]]],
              call |-> call]

-----------------------------------------------------------------------------
(* Queries *)

\* date arrays, listed in date order
DateArrays ==
    {a \in SeqsUpTo(QueryDates, MaxLen) :
        \A i \in 1..(Len(a) - 1) : a[i] <= a[i + 1]}
\* strikes by position: within, above, below the fitted strikes, ...;
\* call, put, call, ... by position
StrikeArray(m) == [i \in 1..m |-> StrikeKinds[((i - 1) % Len(StrikeKinds)) + 1]]
CallPutArray(m) == [i \in 1..m |-> IF i % 2 = 1 THEN 1 ELSE -1]
\* the K and cp arrays given with n dates: of the same length, or one of them
\* of another length
ArrayLengths(n) ==
    LET m == IF n < MaxLen THEN n + 1 ELSE n - 1
    IN  {<<n, n>>, <<m, n>>, <<n, m>>}

\* what a calibration may report: below, at and above the threshold
SSEOutcomes == {SSE_THRESHOLD - 1, SSE_THRESHOLD, SSE_THRESHOLD + 1}

\* the orders in which set(dates) may be iterated
IterationOrders(S) == {f \in [1..Cardinality(S) -> S] : Range(f) = S}

\* the results of the calibrations a query runs, one per date it calibrates
CalibrationResults(method, S) ==
    IF IsHeston(method) THEN [S -> SSEOutcomes]
    ELSE {[d \in S |-> 0]}

\* the dates whose fitting order and calibration result bear on a query
DatesToFit(cache, daily, dates, K, cp) ==
    IF ShapeCheck(dates, K, cp).type = "none" /\ HasTable(daily)
       /\ Range(dates) \subseteq DOMAIN daily
    THEN Range(dates) ELSE {}

RECURSIVE Total(_)
Total(f) ==
    IF DOMAIN f = {} THEN 0
    ELSE LET d == CHOOSE x \in DOMAIN f : TRUE
         IN  f[d] + Total([x \in DOMAIN f \ {d} |-> f[x]])

RECURSIVE CountIn(_, _)
CountIn(seq, d) ==
    IF seq = <<>> THEN 0
    ELSE (IF Head(seq) = d THEN 1 ELSE 0) + CountIn(Tail(seq), d)

\* the surface after a query with outcome r
Record(op, dates, K, cp, r) ==
    /\ K_sigma_daily_smile_func' = r.cache
    /\ n_fits' = n_fits + Len(r.ran)
    /\ fit_calls' = [d \in DOMAIN fit_calls |-> fit_calls[d] + CountIn(r.ran, d)]
    /\ fit_rejects' =
          [d \in DOMAIN fit_rejects |->
             IF r.status = "raise" /\ r.value.date = Some(d)
                /\ r.value.SSE # None
             THEN fit_rejects[d] + 1 ELSE fit_rejects[d]]
    /\ Total(fit_rejects') <= MaxRejects
    /\ ret' = [op |-> op, dates |-> dates, K |-> K, cp |-> cp,
               status |-> r.status, value |-> r.value, ran |-> r.ran]
    /\ UNCHANGED surface_vars

InterpSigmaSurface ==
    /\ phase = "built"
    /\ \E dates \in DateArrays : \E lens \in ArrayLengths(Len(dates)) :
         LET K == StrikeArray(lens[1])
             cp == CallPutArray(lens[2])
             fit == DatesToFit(K_sigma_daily_smile_func, Delta_sigma_daily,
                               dates, K, cp)
         IN  \E order \in IterationOrders(fit),
                sse \in CalibrationResults(smile_interpolation_method,
                          {d \in fit : NeedsFit(K_sigma_daily_smile_func, d)}) :
                Record("interp_sigma_surface", dates, K, cp,
                       interp_sigma_surface(K_sigma_daily_smile_func, n_fits,
                           smile_interpolation_method, fx_spot_rate[1],
                           Delta_sigma_daily, dates, K, cp, order, sse))

PriceFXVanillaEuropean ==
    /\ phase = "built"
    /\ \E dates \in DateArrays : \E lens \in ArrayLengths(Len(dates)) :
         LET K == StrikeArray(lens[1])
             cp == CallPutArray(lens[2])
             inrange == IF HasTable(sigma_pillar)
                        THEN Masked(dates, PillarRangeMask(sigma_pillar, dates))
                        ELSE <<>>
             fit == DatesToFit(K_sigma_daily_smile_func, Delta_sigma_daily,
                               inrange, K, cp)
         IN  \E order \in IterationOrders(fit),
                sse \in CalibrationResults(smile_interpolation_method,
                          {d \in fit : NeedsFit(K_sigma_daily_smile_func, d)}) :
                Record("price_fx_vanilla_european", dates, K, cp,
                       price_fx_vanilla_european(K_sigma_daily_smile_func, n_fits,
                           smile_interpolation_method, fx_spot_rate[1],
                           sigma_pillar, Delta_sigma_daily,
                           dates, K, cp, order, sse))

\* date grids of a simulation: increasing dates from the curve date on
SimDateGrids ==
    {g \in SeqsUpTo(0..MaxTenor, MaxLen) : \A i \in 1..(Len(g) - 1) : g[i] < g[i + 1]}

SimulateFXRatePath ==
    /\ phase = "built"
    /\ \E date_grid \in {None} \cup {Some(g) : g \in SimDateGrids} :
         LET r == gbm_market_data_inputs(fx_spot_rate[1], fx_forward_curve,
                      sigma_pillar, Delta_sigma_daily, date_grid)
         IN  /\ ret' = [op |-> "simulate_fx_rate_path",
                        dates |-> SimDateGrid(sigma_pillar, date_grid),
                        K |-> <<>>, cp |-> <<>>,
                        status |-> r.status, value |-> r.value, ran |-> <<>>]
             /\ forward_volatility_calls' = r.call
    /\ UNCHANGED <<phase, error, curve_ccy, foreign_ccy, domestic_ccy,
                   spot_date, fx_forward_curve, fx_spot_rate, sigma_pillar,
                   K_pillar, Delta_sigma_daily, smile_interpolation_method,
                   collaborator_calls, K_sigma_daily_smile_func,
                   fit_calls, fit_rejects, n_fits>>

\* the arrays of a direct forward_volatility call: any times t1 and t2, a
\* volatility of 15% at t1 and of 10% or 20% at t2
FormulaTimes == 0..MaxDay
FormulaVols == {10, 20}

\* forward_volatility(t1, σ_t1, t2, σ_t2) called on arrays of one length; the
\* method keeps no state, so one call per behaviour covers every call
ForwardVolatility ==
    /\ ret.op = "none"
    /\ \E n \in 1..MaxLen :
         \E t1 \in [1..n -> FormulaTimes], t2 \in [1..n -> FormulaTimes],
            s2 \in [1..n -> FormulaVols] :
            LET r == forward_volatility(t1, [i \in 1..n |-> Vol(15)], t2,
                                        [i \in 1..n |-> Vol(s2[i])])
            IN  /\ ret' = [op |-> "forward_volatility", dates |-> <<>>,
                           K |-> <<>>, cp |-> <<>>,
                           status |-> r.status, value |-> r.value, ran |-> <<>>]
                /\ forward_volatility_calls' = <<FormulaCall(t1, t2, r.status)>>
    /\ UNCHANGED <<phase, error, curve_ccy, foreign_ccy, domestic_ccy,
                   spot_date, fx_forward_curve, fx_spot_rate, sigma_pillar,
                   K_pillar, Delta_sigma_daily, smile_interpolation_method,
                   collaborator_calls, K_sigma_daily_smile_func,
                   fit_calls, fit_rejects, n_fits>>

\* any construction input; the smile method is the dataclass default
Init ==
    /\ InitCommon
    /\ curve_ccy \in CcyInputs
    /\ spot_date \in {None, Some([spot_of |-> <<"given">>])}
    /\ fx_forward_curve \in ForwardCurves
    /\ sigma_pillar \in {NoTable}
          \cup PillarTables(1..MaxDay, LabelSets, VALID_DELTA_CONVENTIONS)
    /\ smile_interpolation_method = "cubic_spline"

Next == PostInit

Spec == Init /\ [][Next]_vars

\* a well-formed surface input with pillars on day 1 and day MaxDay (or with
\* no pillars), under any smile method; the pillars are quoted in regular
\* spot delta, and under the default method also in premium-adjusted spot
\* delta
QueryPillarTables ==
    { [p \in {1, MaxDay} |->
         [tenor_years |-> YearFraction(p),
          Delta_convention |-> c,
          sigma |-> [b \in DailyCols |->
                       QuoteOf([atm |-> 10, w25 |-> 20, w10 |-> 20], b)]]] :
        c \in {"regular_spot_delta", "premium_adjusted_spot_delta"} }

\* both spline methods, one Heston method of each pricing family, and the
\* methods that have no fitting strategy
QueryMethods ==
    VALID_FX_SMILE_INTERPOLATION_METHOD
        \ {"heston_carr_madan_gauss_kronrod_quadrature"}

InitQuery ==
    /\ InitCommon
    /\ curve_ccy = <<"a", "u", "d", "u", "s", "d">>
    /\ spot_date = None
    /\ fx_forward_curve = [d \in 0..MaxDay |-> 660 + d]
    /\ sigma_pillar \in {NoTable} \cup QueryPillarTables
    /\ smile_interpolation_method \in QueryMethods
    /\ HasTable(sigma_pillar) \/ smile_interpolation_method = "cubic_spline"
    /\ \/ smile_interpolation_method = "cubic_spline"
       \/ \A p \in DOMAIN sigma_pillar :
             sigma_pillar[p].Delta_convention = "regular_spot_delta"

NextQuery == PostInit \/ InterpSigmaSurface \/ PriceFXVanillaEuropean

SpecQuery == InitQuery /\ [][NextQuery]_vars

\* the volatilities (in percent) of the two-pillar term structures
GridVols == {10, 15, 20}

\* two pillars on any two days, each quoting one volatility for every label;
\* the labels are the three the daily grid interpolates, without or with an
\* at-the-money-forward quote
GridPillarTables ==
    { [p \in {x[1], x[2]} |->
         [tenor_years |-> YearFraction(p),
          Delta_convention |-> "regular_spot_delta",
          sigma |-> [b \in x[5] |-> Vol(IF p = x[1] THEN x[3] ELSE x[4])]]] :
        x \in { y \in (1..MaxTenor) \X (1..MaxTenor) \X GridVols \X GridVols
                      \X { DailyCols, DailyCols \cup {"atmf"} } :
                  y[1] < y[2] } }

InitGrid ==
    /\ InitCommon
    /\ curve_ccy = <<"a", "u", "d", "u", "s", "d">>
    /\ spot_date = None
    /\ fx_forward_curve = [d \in 0..MaxDay |-> 660 + d]
    /\ sigma_pillar \in GridPillarTables
    /\ smile_interpolation_method = "cubic_spline"

NextGrid == PostInit \/ SimulateFXRatePath

SpecGrid == InitGrid /\ [][NextGrid]_vars

\* forward_volatility reads nothing of the surface: it is called on a surface
\* that need not be built
InitFormula ==
    /\ InitCommon
    /\ curve_ccy = <<"a", "u", "d", "u", "s", "d">>
    /\ spot_date = None
    /\ fx_forward_curve = [d \in 0..MaxDay |-> 660 + d]
    /\ sigma_pillar = NoTable
    /\ smile_interpolation_method = "cubic_spline"

NextFormula == ForwardVolatility

SpecFormula == InitFormula /\ [][NextFormula]_vars

\* pillars on day 1 and day MaxDay quoted in any of the four delta
\* conventions, on the three buckets of the daily grid or on five buckets,
\* under the two spline methods
StrikePillarTables ==
    { [p \in {1, MaxDay} |->
         [tenor_years |-> YearFraction(p),
          Delta_convention |-> c,
          sigma |-> [b \in L |->
                       QuoteOf([atm |-> 10, w25 |-> 20, w10 |-> 20], b)]]] :
        <<c, L>> \in VALID_DELTA_CONVENTIONS
                        \X {DailyCols, DailyCols \cup {"10Dput", "10Dcall"}} }

InitStrikes ==
    /\ InitCommon
    /\ curve_ccy = <<"a", "u", "d", "u", "s", "d">>
    /\ spot_date = None
    /\ fx_forward_curve = [d \in 0..MaxDay |-> 660 + d]
    /\ sigma_pillar \in StrikePillarTables
    /\ smile_interpolation_method \in {"univariate_spline", "cubic_spline"}

NextStrikes == PostInit \/ InterpSigmaSurface

SpecStrikes == InitStrikes /\ [][NextStrikes]_vars

-----------------------------------------------------------------------------
(* Properties *)

cache == K_sigma_daily_smile_func

IsQuery == ret.op \in {"interp_sigma_surface", "price_fx_vanilla_european"}
ShapesAgree(r) == Len(r.K) = Len(r.dates) /\ Len(r.cp) = Len(r.dates)

\* C1, as stated: across any sequence of queries the fitting step of a date
\* (strike derivation plus spline construction, or the Heston calibration
\* call) is executed at most once.
C1_FitAtMostOncePerDate ==
    \A d \in DOMAIN fit_calls : fit_calls[d] <= 1

\* C1, amended: a query runs the fitting step of a date at most once, and only
\* for a date that has no cache entry; the step either caches the date's fit,
\* after which it is never run for that date again, or it is a Heston
\* calibration rejected for its SSE, which leaves the date without an entry
\* so that a later query at that date calibrates again.
C1_FitOnlyWhileUnfitted ==
    [][\A d \in DOMAIN fit_calls :
          /\ fit_calls'[d] <= fit_calls[d] + 1
          /\ fit_calls'[d] > fit_calls[d] =>
                /\ d \notin DOMAIN cache
                /\ \/ d \in DOMAIN cache'
                   \/ /\ IsHeston(smile_interpolation_method)
                      /\ ret'.status = "raise"
                      /\ ret'.value.SSE # None
                      /\ ret'.value.date = Some(d)
                      /\ d \notin DOMAIN cache']_vars

\* C1 witness: a query that names an already fitted date twice ran no fitting
\* step, and the date's step has run once in all.
C1_Witness ==
    /\ ret.op = "interp_sigma_surface"
    /\ ret.status = "ok"
    /\ ret.ran = <<>>
    /\ Len(ret.dates) = 2
    /\ ret.dates[1] = ret.dates[2]
    /\ ret.dates[1] \in DOMAIN cache
    /\ fit_calls[ret.dates[1]] = 1

\* C2: once a date has a cache entry no later query replaces, alters or
\* removes it, and a later successful implied-volatility query reads that
\* same entry for every one of its inputs at that date.
C2_CacheEntryImmutable ==
    [][/\ \A d \in DOMAIN cache : d \in DOMAIN cache' /\ cache'[d] = cache[d]
       /\ (ret' # ret /\ ret'.op = "interp_sigma_surface" /\ ret'.status = "ok"
           /\ Len(ret'.value) = Len(ret'.dates)) =>
             \A i \in DOMAIN ret'.dates :
                ret'.dates[i] \in DOMAIN cache =>
                   ret'.value[i].smile = cache[ret'.dates[i]]]_vars

\* C2 witness: the date fitted first is read again, unchanged, after another
\* date has been fitted.
C2_Witness ==
    /\ ret.op = "interp_sigma_surface"
    /\ ret.status = "ok"
    /\ ret.ran = <<>>
    /\ n_fits >= 2
    /\ Len(ret.value) = 1
    /\ ret.value[1].smile.serial = 1
    /\ cache[ret.dates[1]].serial = 1

\* C3: a pricing batch of equal-length arrays with some but not all dates
\* inside the pillar range returns without raising, with not-a-number for
\* each out-of-range entry and the surface's implied volatility at its own
\* date and strike for each in-range entry (stated for the spline methods).
C3_PartialBatchIsPriced ==
    (/\ ret.op = "price_fx_vanilla_european"
     /\ HasTable(sigma_pillar)
     /\ IsSpline(smile_interpolation_method)
     /\ ShapesAgree(ret)
     /\ \E i \in DOMAIN ret.dates : PillarRangeMask(sigma_pillar, ret.dates)[i]
     /\ \E i \in DOMAIN ret.dates : ~ PillarRangeMask(sigma_pillar, ret.dates)[i])
    => /\ ret.status = "ok"
       /\ \A i \in DOMAIN ret.dates :
             IF PillarRangeMask(sigma_pillar, ret.dates)[i]
             THEN ret.value[i] =
                    ImpliedVol(smile_interpolation_method, cache[ret.dates[i]],
                               fx_spot_rate[1], Delta_sigma_daily[ret.dates[i]],
                               ret.K[i], ret.cp[i])
             ELSE ret.value[i] = NaN

\* C4: a Heston calibration is rejected exactly when its SSE exceeds 0.001:
\* the SSE named by a rejection is above the threshold, and a cached
\* calibration has an SSE of at most the threshold.
C4_RejectedExactlyAboveThreshold ==
    /\ (IsQuery /\ ret.status = "raise" /\ ret.value.SSE # None) =>
          ret.value.SSE[1] > SSE_THRESHOLD
    /\ \A d \in DOMAIN cache : cache[d].SSE <= SSE_THRESHOLD

\* C7: an implied-volatility query on a surface whose method has no fitting
\* strategy fails with an error; it never returns a result.
C7_UnsupportedMethodFails ==
    (/\ ret.op = "interp_sigma_surface"
     /\ ~ IsSpline(smile_interpolation_method)
     /\ ~ IsHeston(smile_interpolation_method)
     /\ HasTable(Delta_sigma_daily)
     /\ ShapesAgree(ret)
     /\ Range(ret.dates) \subseteq DOMAIN Delta_sigma_daily)
    => ret.status = "raise"

\* C8: a query whose dates, strikes and call/put arrays differ in shape
\* aborts with the shape assertion before any smile fit: no result, no
\* fitting step, and the cache as it was.
C8_ShapeMismatchAborts ==
    [][(ret'.op \in {"interp_sigma_surface", "price_fx_vanilla_european"}
        /\ ~ ShapesAgree(ret')) =>
          /\ ret'.status = "raise"
          /\ ret'.value.type = "AssertionError"
          /\ ret'.ran = <<>>
          /\ cache' = cache
          /\ fit_calls' = fit_calls]_vars

\* C8 witness: a mismatched pricing call was refused on a surface that
\* holds a fitted date.
C8_Witness ==
    /\ ret.op = "price_fx_vanilla_european"
    /\ ~ ShapesAgree(ret)
    /\ ret.status = "raise"
    /\ ret.value.type = "AssertionError"
    /\ DOMAIN cache # {}

Constructed == phase # "new"
CurveDateAbsent == curve_date \notin DOMAIN fx_forward_curve

\* C5: at every pillar date the daily grid holds, for every quote label of
\* the pillars, the pillar's own quoted volatility.
C5_GridPassesThroughPillars ==
    (phase = "built" /\ HasTable(sigma_pillar)) =>
       \A p \in DOMAIN sigma_pillar : \A b \in QuoteLabels(sigma_pillar) :
          /\ p \in DOMAIN Delta_sigma_daily
          /\ b \in DOMAIN Delta_sigma_daily[p].sigma
          /\ Delta_sigma_daily[p].sigma[b] = sigma_pillar[p].sigma[b]

\* two pillars with no pillar between them
ConsecutivePillars(pillar) ==
    {pq \in (DOMAIN pillar) \X (DOMAIN pillar) :
        /\ pq[1] < pq[2]
        /\ ~ \E r \in DOMAIN pillar : pq[1] < r /\ r < pq[2]}

NegativeForwardVariance(pillar, labels) ==
    \E pq \in ConsecutivePillars(pillar) : \E b \in labels :
       IsNegative(ForwardVariance(pillar[pq[1]].tenor_years, pillar[pq[1]].sigma[b],
                                  pillar[pq[2]].tenor_years, pillar[pq[2]].sigma[b]))

\* C6: pillars with a negative forward variance between two consecutive
\* pillars, in any bucket, make construction fail (stated for the three
\* labels the daily grid interpolates, on otherwise valid input).
C6_NegativeForwardVarianceRejected ==
    (/\ Constructed
     /\ HasTable(sigma_pillar)
     /\ CcyLengthOk(curve_ccy)
     /\ ~ CurveDateAbsent
     /\ DailyCols \subseteq QuoteLabels(sigma_pillar)
     /\ NegativeForwardVariance(sigma_pillar, DailyCols))
    => /\ phase = "failed"
       /\ error = NegativeVarianceError

\* C9: construction fails with the missing-spot-quote error whenever the
\* curve date is absent from the forward curve (an input whose pair code is
\* malformed has already failed on that), and a constructed surface's spot
\* rate is the forward curve's rate at the curve date.
C9_SpotQuoteRequired ==
    /\ (Constructed /\ CurveDateAbsent) =>
          /\ phase = "failed"
          /\ CcyLengthOk(curve_ccy) => error = MissingSpotQuote
    /\ phase = "built" =>
          /\ ~ CurveDateAbsent
          /\ fx_spot_rate = Some(fx_forward_curve[curve_date])

\* C9 witness: construction from a well-formed pair code and a forward curve
\* without the curve date has failed for the missing spot quote.
C9_Witness ==
    /\ phase = "failed"
    /\ CcyLengthOk(curve_ccy)
    /\ CurveDateAbsent
    /\ error = MissingSpotQuote

\* C10: the daily grid has exactly one row per calendar date from the first
\* to the last pillar date, and each row holds a volatility for every quote
\* label of the pillars, with the date's year-fraction, zero rates and forward
\* rate.
C10_GridRowsAndLabels ==
    (phase = "built" /\ HasTable(sigma_pillar)) =>
       /\ DOMAIN Delta_sigma_daily = DateRange(sigma_pillar)
       /\ \A d \in DOMAIN Delta_sigma_daily :
             /\ DOMAIN Delta_sigma_daily[d].sigma = QuoteLabels(sigma_pillar)
             /\ Delta_sigma_daily[d].tenor_years = YearFraction(d)
             /\ Delta_sigma_daily[d].fx_forward_rate
                   = InterpFXForwardCurve(fx_forward_curve, d)
             /\ Delta_sigma_daily[d].foreign_ccy_continuously_compounded_zero_rate
                   = ZeroRate("foreign", d)
             /\ Delta_sigma_daily[d].domestic_ccy_continuously_compounded_zero_rate
                   = ZeroRate("domestic", d)

\* the grid dates strictly between two consecutive pillars, with the pillars
DatesBetweenPillars ==
    IF phase = "built" /\ HasTable(sigma_pillar)
    THEN {x \in ConsecutivePillars(sigma_pillar) \X DOMAIN Delta_sigma_daily :
             x[1][1] < x[2] /\ x[2] < x[1][2]}
    ELSE {}

C12_StrictlyBetweenPillarVols ==
    \A x \in DatesBetweenPillars :
       LET v1 == sigma_pillar[x[1][1]].sigma["atmDneutral"]
           v2 == sigma_pillar[x[1][2]].sigma["atmDneutral"]
           vt == Delta_sigma_daily[x[2]].sigma["atmDneutral"]
       IN  v1 # v2 =>
             \/ FLess(v1, vt) /\ FLess(vt, v2)
             \/ FLess(v2, vt) /\ FLess(vt, v1)

\* C12 witness: a grid date strictly between a pillar and a later pillar of
\* lower at-the-money volatility.
C12_Witness ==
    \E x \in DatesBetweenPillars :
       FLess(sigma_pillar[x[1][2]].sigma["atmDneutral"],
             sigma_pillar[x[1][1]].sigma["atmDneutral"])

\* C13: a spline query at a strike outside the strikes the date's spline was
\* fitted on either fails or returns the boundary volatility (constant
\* extrapolation); it returns nothing else, so never a negative volatility.
C13_ExplicitExtrapolation ==
    (/\ ret.op = "interp_sigma_surface"
     /\ IsSpline(smile_interpolation_method)
     /\ ret.status = "ok")
    => \A i \in DOMAIN ret.value :
          ~ WithinFittedStrikes(ret.value[i].strike) =>
             ret.value[i].mode = "constant"

\* C14: the strike table holds a strike for every quoted bucket at every
\* pillar: with an at-the-money-forward quote the at-the-money strike is the
\* pillar's forward rate, and without one every bucket's strike is the
\* converter's result for the pillar's spot, rates, year-fraction, volatility,
\* delta and delta convention.
C14_StrikeForEveryBucket ==
    (phase = "built" /\ HasTable(sigma_pillar)) =>
       \A p \in DOMAIN sigma_pillar : \A b \in QuoteLabels(sigma_pillar) :
          /\ p \in DOMAIN K_pillar
          /\ b \in DOMAIN K_pillar[p]
          /\ b = "atmf" => K_pillar[p][b] = sigma_pillar[p].fx_forward_rate
          /\ "atmf" \notin QuoteLabels(sigma_pillar) =>
                K_pillar[p][b] =
                   gk_solve_strike(fx_spot_rate[1], sigma_pillar[p].tenor_years,
                       sigma_pillar[p].foreign_ccy_continuously_compounded_zero_rate,
                       sigma_pillar[p].domestic_ccy_continuously_compounded_zero_rate,
                       sigma_pillar[p].sigma[b], PillarDelta(b),
                       sigma_pillar[p].Delta_convention,
                       sigma_pillar[p].fx_forward_rate)

\* C15: every call to the delta-to-strike converter passes the convention
\* tag recorded on the row it processes, the same tag for every bucket of
\* the row: the pillar's tag when the pillar strikes are derived, the date
\* row's tag when a date's smile is fitted.
C15_ConventionTagOfRow ==
    /\ (phase # "new" /\ HasTable(K_pillar) /\ "atmf" \notin QuoteLabels(sigma_pillar)) =>
          \A p \in DOMAIN K_pillar : \A b \in DOMAIN K_pillar[p] :
             K_pillar[p][b].Delta_convention = sigma_pillar[p].Delta_convention
    /\ \A d \in DOMAIN cache :
          cache[d].kind \in {"CubicSpline", "InterpolatedUnivariateSpline"} =>
             \A b \in DOMAIN cache[d].x :
                cache[d].x[b].Delta_convention
                   = Delta_sigma_daily[d].Delta_convention

\* C15 witness: pillars quoted in premium-adjusted spot delta, their strikes
\* derived, and a date's spline fitted.
C15_Witness ==
    /\ phase = "built"
    /\ HasTable(K_pillar)
    /\ \A p \in DOMAIN K_pillar :
          K_pillar[p]["atmDneutral"].Delta_convention = "premium_adjusted_spot_delta"
    /\ \E d \in DOMAIN cache : cache[d].kind = "CubicSpline"

\* C16: the forward-volatility formula is never evaluated with t2 == t1
\* while the daily grid is built, and an input with t2 == t1 ends in an
\* assertion failure, not in a return value.
C16_FormulaNeverAtEqualTimes ==
    \A n \in DOMAIN forward_volatility_calls :
       LET call == forward_volatility_calls[n]
       IN  /\ \A i \in DOMAIN call.t1 : call.t1[i] # call.t2[i]
           /\ (\E i \in DOMAIN call.t1 : call.t1[i] = call.t2[i]) =>
                 call.status = "raise"

\* C17: in a simulation over d1 < ... < dn within the pillar range, period 1
\* runs from the spot rate to the forward rate at d1 with the at-the-money
\* volatility at d1; every later period i runs from the forward rate at
\* d(i-1) to the forward rate at d(i), its drift the log of their ratio over
\* the period length and its volatility the forward volatility between
\* d(i-1) and d(i).
C17_SimulationPeriods ==
    (/\ ret.op = "simulate_fx_rate_path"
     /\ ret.status = "ok"
     /\ \A i \in DOMAIN ret.dates : PillarRangeMask(sigma_pillar, ret.dates)[i])
    => LET d == ret.dates
           F(i) == InterpFXForwardCurve(fx_forward_curve, d[i])
           atm(i) == Delta_sigma_daily[d[i]].sigma["atmDneutral"]
           tau(i) == YearFraction(d[i])
       IN  /\ DOMAIN ret.value = DOMAIN d
           /\ ret.value[1].from_rate = SpotAsRate(fx_spot_rate[1])
           /\ ret.value[1].to_rate = F(1)
           /\ ret.value[1].period_length = tau(1)
           /\ ret.value[1].period_drift
                 = PeriodDrift(F(1), SpotAsRate(fx_spot_rate[1]), tau(1))
           /\ ret.value[1].period_forward_volatility = atm(1)
           /\ \A i \in 2..Len(d) :
                 /\ ret.value[i].from_rate = F(i - 1)
                 /\ ret.value[i].to_rate = F(i)
                 /\ ret.value[i].period_length = tau(i) - tau(i - 1)
                 /\ ret.value[i].period_drift
                       = PeriodDrift(F(i), F(i - 1), tau(i) - tau(i - 1))
                 /\ ret.value[i].period_forward_volatility
                       = ForwardVariance(tau(i - 1), atm(i - 1), tau(i), atm(i))
                 /\ ~ IsNegative(ret.value[i].period_forward_volatility)

\* C17 witness: a simulation over two dates inside the pillar range whose
\* at-the-money volatilities differ has returned its periods.
C17_Witness ==
    /\ ret.op = "simulate_fx_rate_path"
    /\ ret.status = "ok"
    /\ Len(ret.dates) = 2
    /\ \A i \in DOMAIN ret.dates : PillarRangeMask(sigma_pillar, ret.dates)[i]
    /\ Delta_sigma_daily[ret.dates[1]].sigma["atmDneutral"]
          # Delta_sigma_daily[ret.dates[2]].sigma["atmDneutral"]

\* the pair code a collaborator call was made with
CallPairCode(call) ==
    IF call[1] = "get_calendar" THEN call[2] \o call[3] ELSE call[2]

\* C18: a malformed pair code aborts construction with the pair-code error
\* before the code is used for anything else; no calendar lookup or
\* spot-date resolution is made with a code that is not normalised and six
\* characters long; on success the foreign currency is the first three and
\* the domestic currency the last three characters.
C18_PairCodeCheckedFirst ==
    Constructed =>
       /\ error = InvalidCurrencyPair => collaborator_calls = <<>>
       /\ \A i \in DOMAIN collaborator_calls :
             LET code == CallPairCode(collaborator_calls[i])
             IN  NormaliseCcy(code) = code /\ CcyLengthOk(code)
       /\ phase = "built" =>
             /\ CcyLengthOk(curve_ccy)
             /\ foreign_ccy = First3(curve_ccy)
             /\ domestic_ccy = From3(curve_ccy)

\* C19: when a query ends on a rejected Heston calibration of date d, d has
\* no cache entry afterwards (so the next query at d calibrates again), every
\* date fitted earlier in the same call has its entry, and every entry the
\* cache held before the call is unchanged.
C19_RejectionKeepsOtherFits ==
    [][(/\ ret'.op \in {"interp_sigma_surface", "price_fx_vanilla_european"}
        /\ ret'.status = "raise"
        /\ ret'.value.SSE # None
        /\ fit_rejects' # fit_rejects) =>
          LET d == ret'.value.date[1]
          IN  /\ d \notin DOMAIN cache'
              /\ NeedsFit(cache', d)
              /\ \A x \in DOMAIN cache : x \in DOMAIN cache' /\ cache'[x] = cache[x]
              /\ DOMAIN cache' = DOMAIN cache \cup (Range(ret'.ran) \ {d})
              /\ ret'.ran[Len(ret'.ran)] = d]_vars

\* C19 witness: a two-date query fitted and cached one date and was then
\* rejected on the other, which has no entry.
C19_Witness ==
    /\ ret.op = "interp_sigma_surface"
    /\ ret.status = "raise"
    /\ ret.value.SSE # None
    /\ Len(ret.ran) = 2
    /\ ret.ran[1] \in DOMAIN cache
    /\ ret.ran[2] \notin DOMAIN cache
    /\ ret.value.date = Some(ret.ran[2])

C21_NegativePeriodIsValueError ==
    \A n \in DOMAIN forward_volatility_calls :
       LET call == forward_volatility_calls[n]
       IN  (/\ ret.op = "forward_volatility"
            /\ \E i \in DOMAIN call.t1 : call.t2[i] < call.t1[i]) =>
              /\ call.status = "raise"
              /\ ret.status = "raise"
              /\ ret.value.type = "ValueError"

\* C21: a call with a negative period next to a zero-length period returned
\* a value for the negative period.
C21_ReturnedOverNegativePeriod ==
    /\ ret.op = "forward_volatility"
    /\ ret.status = "ok"
    /\ \E i, j \in DOMAIN forward_volatility_calls[1].t1 :
          LET call == forward_volatility_calls[1]
          IN  /\ call.t2[i] < call.t1[i]
              /\ call.t2[j] = call.t1[j]
              /\ IsNum(ret.value[i])

\* the pillar dates whose spline smile is in the cache
FittedPillarDates ==
    {p \in DOMAIN K_sigma_daily_smile_func :
        /\ HasTable(sigma_pillar)
        /\ p \in DOMAIN sigma_pillar
        /\ IsSpline(smile_interpolation_method)}

\* C22 as stated: at every pillar date the strikes of the fitted spline smile
\* are the strikes the pillar strike table holds for that date, whichever
\* delta convention the pillars are quoted in.
C22_FitStrikesArePillarStrikes ==
    \A p \in FittedPillarDates :
       \A b \in DOMAIN K_sigma_daily_smile_func[p].x :
          K_sigma_daily_smile_func[p].x[b] = K_pillar[p][b]

\* C22: at every pillar date the strikes of the fitted spline smile are those
\* of the three daily-grid buckets, each obtained from the converter with the
\* inputs of the pillar strike table's strike for that bucket except the
\* delta convention, which is always regular forward delta; so they are the
\* pillar table's strikes for these buckets exactly when the pillars are
\* quoted in regular forward delta.
C22_FitStrikesUseForwardDelta ==
    \A p \in FittedPillarDates :
       LET x == K_sigma_daily_smile_func[p].x
       IN  /\ DOMAIN x = DailyCols
           /\ \A b \in DailyCols :
                 /\ x[b] = [K_pillar[p][b] EXCEPT
                              !.Delta_convention = "regular_forward_delta"]
                 /\ (x[b] = K_pillar[p][b]) <=>
                       (sigma_pillar[p].Delta_convention = "regular_forward_delta")

\* C22 witness: a spline smile was fitted at a pillar date of pillars quoted
\* in regular forward delta, on the pillar table's strikes.
C22_Witness ==
    /\ ret.op = "interp_sigma_surface"
    /\ ret.status = "ok"
    /\ \E p \in FittedPillarDates :
          /\ p \in Range(ret.ran)
          /\ sigma_pillar[p].Delta_convention = "regular_forward_delta"
          /\ \A b \in DailyCols :
                K_sigma_daily_smile_func[p].x[b] = K_pillar[p][b]

====
